---- MODULE Spec2Model ----
(***************************************************************************)
(* Model of Terra::Random::RandomGenerator (random_generator.cpp/.h), the  *)
(* POSIX build (__linux__ / __APPLE__ / __FreeBSD__ branch).               *)
(*                                                                         *)
(* A generator object holds pseudo_random_only, random_fd,                 *)
(* pseudo_random_fd and random_engine.  The operating system is the table  *)
(* of file descriptors; a read() has every outcome a non-blocking read can *)
(* have, so a handler is the set of its possible outcomes.  std::mt19937   *)
(* is library code: it is abstracted to a 16-bit linear congruential       *)
(* engine, and the uniform_int_distribution(0, 255) to the engine output's *)
(* high octet.  A definition introduced as a "faulty variant" alters the   *)
(* definition that follows it, to show that a property depends on it.      *)
(***************************************************************************)
EXTENDS Integers, Sequences, FiniteSets, TLC

\* Longest buffer a caller passes.
MaxLen == 2
\* Number of retrieval calls (GetRandomOctet, GetRandomOctets,
\* SourceRandomOctets) in one behaviour.
MaxCalls == 1

\* The program's generator objects: Original is constructed from a bool,
\* Duplicate is copy-constructed from it.
Original == "g1"
Duplicate == "g2"
Generators == {Original, Duplicate}
Slots == {"random_fd", "pseudo_random_fd"}
\* Descriptor numbers the process can be handed by open().
FdNumbers == 3..6
\* Octets a caller's buffer holds before the call.
CallerOctets == {0, 165}
\* std::random_device()(): it throws, or yields a value.
SeedOutcomes ==
    {[throws |-> TRUE, value |-> 0], [throws |-> FALSE, value |-> 70000]}
\* system_clock::now().time_since_epoch().count(), a 64-bit count written
\* as hi * 2^32 + lo.
ClockValues == {[hi |-> 413, lo |-> 70007], [hi |-> 413, lo |-> 70009]}

RECURSIVE BitXor(_, _, _)
BitXor(a, b, bits) ==
    IF bits = 0 THEN 0
    ELSE (((a % 2) + (b % 2)) % 2) + (2 * BitXor(a \div 2, b \div 2, bits - 1))

\* octet ^= value, on std::uint8_t
XorOctet(a, b) == BitXor(a, b, 8)

\* static_cast<std::random_device::result_type>(count): the low 32 bits
SeedCast(count) == count.lo

\* clock readings in the order they are taken
NotAfter(c1, c2) == c1.hi < c2.hi \/ (c1.hi = c2.hi /\ c1.lo <= c2.lo)

\* random_engine.seed(value)
EngineSeed(value) == value % 65536

\* one step of random_engine
EngineNext(engine) == ((engine * 25173) + 13849) % 65536

\* distribution(0, 255) applied to the engine's output
Distribution(engine) == engine \div 256

(***************************************************************************)
(* The operating system: descriptor table and read().                      *)
(***************************************************************************)

\* open(path, O_NONBLOCK | O_RDONLY | O_CLOEXEC): the lowest free descriptor,
\* or -1 when the device cannot be opened.
open(table, device, ok) ==
    LET free == {fd \in FdNumbers : table[fd] = "closed"} IN
    IF ~ok \/ free = {} THEN [fd |-> -1, table |-> table]
    ELSE LET fd == CHOOSE f \in free : \A o \in free : f <= o
         IN  [fd |-> fd, table |-> [table EXCEPT ![fd] = device]]

\* close(fd)
close(table, fd) ==
    IF fd \in FdNumbers THEN [table EXCEPT ![fd] = "closed"] ELSE table

\* The octets each device delivers.
DeviceOctet(device) == IF device = "random" THEN 60 ELSE 255

\* read(fd, buf, count) on a non-blocking descriptor: every outcome the call
\* can have.  -1 is an error (EAGAIN, or EBADF on a closed descriptor), 0 is
\* nothing read, r > 0 is r octets stored at buf.
read(table, fd, count) ==
    IF fd \notin FdNumbers \/ table[fd] = "closed"
    THEN {[result |-> -1, data |-> <<>>]}
    ELSE {[result |-> r, data |-> [k \in 1..r |-> DeviceOctet(table[fd])]] :
             r \in -1..count}

\* buffer with data stored at buffer.data() + offset
Store(buffer, offset, data) ==
    [k \in 1..Len(buffer) |->
        IF k > offset /\ k <= offset + Len(data) THEN data[k - offset]
        ELSE buffer[k]]

(***************************************************************************)
(* The generator object.                                                   *)
(***************************************************************************)

\* The data members of class RandomGenerator.
Object(mode, rfd, pfd, engine) ==
    [pseudo_random_only |-> mode, random_fd |-> rfd,
     pseudo_random_fd |-> pfd, random_engine |-> engine]

\* What the constructor is given by its environment.
CtorInputs ==
    [open_random : BOOLEAN, open_urandom : BOOLEAN, rd : SeedOutcomes,
     clock1 : ClockValues, clock2 : ClockValues]

\* What a constructor call did: whether it completed, the object, the
\* descriptor table afterwards and the results of its open() calls in order.
Built(completed, self, table, opens) ==
    [completed |-> completed, self |-> self, table |-> table,
     opens |-> opens]

\* Faulty variant: an exception of std::random_device leaves the constructor.
RandomGenerator_SeedThrowEscapes(pseudo_random_only, table, in) ==
    LET o1 == open(table, "random", in.open_random)
        o2 == open(o1.table, "urandom", in.open_urandom)
        engine == IF in.rd.throws THEN EngineSeed(SeedCast(in.clock1))
                  ELSE EngineSeed(in.rd.value)
    IN  IF pseudo_random_only
        THEN Built(~in.rd.throws, Object(TRUE, -1, -1, engine), table, <<>>)
        ELSE Built(~in.rd.throws, Object(FALSE, o1.fd, o2.fd, engine),
                   o2.table, <<o1.fd, o2.fd>>)

\* Faulty variant: the devices are opened whatever the mode.
RandomGenerator_OpensAlways(pseudo_random_only, table, in) ==
    LET o1 == open(table, "random", in.open_random)
        o2 == open(o1.table, "urandom", in.open_urandom)
        engine == IF in.rd.throws THEN EngineSeed(SeedCast(in.clock2))
                  ELSE EngineSeed(in.rd.value)
    IN  Built(TRUE, Object(pseudo_random_only, o1.fd, o2.fd, engine),
              o2.table, <<o1.fd, o2.fd>>)

\* RandomGenerator::RandomGenerator(bool pseudo_random_only).  The member
\* initialiser seeds the engine from the clock (clock1); the body opens the
\* devices and seeds the engine again, from std::random_device or, when that
\* throws, from the clock (clock2).  No exception leaves the constructor.
RandomGenerator(pseudo_random_only, table, in) ==
    LET o1 == open(table, "random", in.open_random)
        o2 == open(o1.table, "urandom", in.open_urandom)
        engine == IF in.rd.throws THEN EngineSeed(SeedCast(in.clock2))
                  ELSE EngineSeed(in.rd.value)
    IN  IF pseudo_random_only
        THEN Built(TRUE, Object(TRUE, -1, -1, engine), table, <<>>)
        ELSE Built(TRUE, Object(FALSE, o1.fd, o2.fd, engine), o2.table,
                   <<o1.fd, o2.fd>>)

\* The implicitly-declared copy constructor: memberwise copy.
CopyConstruct(other) ==
    Object(other.pseudo_random_only, other.random_fd,
           other.pseudo_random_fd, other.random_engine)

\* RandomGenerator::~RandomGenerator(): the close() calls, in order.
Destructor(self) ==
    (IF self.random_fd >= 0 THEN <<self.random_fd>> ELSE <<>>)
    \o (IF self.pseudo_random_fd >= 0 THEN <<self.pseudo_random_fd>>
        ELSE <<>>)

\* Faulty variant: the distribution consumes two engine values per octet.
GetPseudoRandomOctet_StepsTwice(engine) ==
    [octet |-> Distribution(EngineNext(EngineNext(engine))),
     engine |-> EngineNext(EngineNext(engine))]

\* RandomGenerator::GetPseudoRandomOctet()
GetPseudoRandomOctet(engine) ==
    [octet |-> Distribution(EngineNext(engine)), engine |-> EngineNext(engine)]

\* One entry of the log of read() calls.
ReadEntry(slot, fd, offset, count, result) ==
    [slot |-> slot, fd |-> fd, offset |-> offset, count |-> count,
     result |-> result]

\* SourceRandomOctets at some point of its run: octets_sourced, the buffer,
\* and the read() calls made so far.
Sourced(octets_sourced, buffer, reads) ==
    [count |-> octets_sourced, buffer |-> buffer, reads |-> reads]

\* Faulty variant: the result of read() is added without the result > 0 test.
ReadRandom_AddsResult(self, buffer, table) ==
    IF self.random_fd >= 0
    THEN {Sourced(r.result, Store(buffer, 0, r.data),
                  <<ReadEntry("random_fd", self.random_fd, 0, Len(buffer),
                              r.result)>>) :
             r \in read(table, self.random_fd, Len(buffer))}
    ELSE {Sourced(0, buffer, <<>>)}

\* SourceRandomOctets: "Attempt to read random values"
ReadRandom(self, buffer, table) ==
    IF self.random_fd >= 0
    THEN {Sourced(IF r.result > 0 THEN r.result ELSE 0,
                  Store(buffer, 0, r.data),
                  <<ReadEntry("random_fd", self.random_fd, 0, Len(buffer),
                              r.result)>>) :
             r \in read(table, self.random_fd, Len(buffer))}
    ELSE {Sourced(0, buffer, <<>>)}

\* Faulty variant: the pseudo-random device is read whenever it is open.
ReadPseudoRandom_Always(self, table, s) ==
    IF self.pseudo_random_fd >= 0
    THEN {Sourced(IF r.result > 0 THEN s.count + r.result ELSE s.count,
                  Store(s.buffer, s.count, r.data),
                  Append(s.reads,
                         ReadEntry("pseudo_random_fd", self.pseudo_random_fd,
                                   s.count, Len(s.buffer) - s.count,
                                   r.result))) :
             r \in read(table, self.pseudo_random_fd, Len(s.buffer) - s.count)}
    ELSE {s}

\* Faulty variant: the pseudo-random device is read only when the random device
\* gave nothing.
ReadPseudoRandom_OnlyIfNoneSourced(self, table, s) ==
    IF s.count = 0 /\ self.pseudo_random_fd >= 0
    THEN {Sourced(IF r.result > 0 THEN s.count + r.result ELSE s.count,
                  Store(s.buffer, s.count, r.data),
                  Append(s.reads,
                         ReadEntry("pseudo_random_fd", self.pseudo_random_fd,
                                   s.count, Len(s.buffer) - s.count,
                                   r.result))) :
             r \in read(table, self.pseudo_random_fd, Len(s.buffer) - s.count)}
    ELSE {s}

\* SourceRandomOctets: "Attempt to read pseudo-random values if more octets
\* are needed", continuing from s
ReadPseudoRandom(self, table, s) ==
    IF s.count < Len(s.buffer) /\ self.pseudo_random_fd >= 0
    THEN {Sourced(IF r.result > 0 THEN s.count + r.result ELSE s.count,
                  Store(s.buffer, s.count, r.data),
                  Append(s.reads,
                         ReadEntry("pseudo_random_fd", self.pseudo_random_fd,
                                   s.count, Len(s.buffer) - s.count,
                                   r.result))) :
             r \in read(table, self.pseudo_random_fd, Len(s.buffer) - s.count)}
    ELSE {s}

\* RandomGenerator::SourceRandomOctets(std::span<std::uint8_t> buffer): every
\* outcome of the call, one per outcome of the reads it issues.
SourceRandomOctets(self, buffer, table) ==
    IF Len(buffer) = 0 \/ self.pseudo_random_only
    THEN {Sourced(0, buffer, <<>>)}
    ELSE UNION {ReadPseudoRandom(self, table, s) :
                   s \in ReadRandom(self, buffer, table)}

\* for (i = 0; i < count; i++) octets[i] ^= GetPseudoRandomOctet();
\* from position i (1-based) on.  drawn logs <<position, octet>> per draw.
RECURSIVE XorOctets(_, _, _, _)
XorOctets(octets, i, engine, drawn) ==
    IF i > Len(octets)
    THEN [octets |-> octets, engine |-> engine, drawn |-> drawn]
    ELSE LET p == GetPseudoRandomOctet(engine) IN
         XorOctets([octets EXCEPT ![i] = XorOctet(octets[i], p.octet)],
                   i + 1, p.engine, Append(drawn, <<i, p.octet>>))

\* What a retrieval call did: the value returned / left in the buffer, the
\* engine afterwards, the SourceRandomOctets calls made (the buffer size and
\* the outcome of each) and the draws.
Outcome(octets, engine, source, drawn) ==
    [octets |-> octets, engine |-> engine, source |-> source,
     drawn |-> drawn]

\* Faulty variant: only the positions the OS left unfilled get a PRNG octet.
Mixed_SkipsSourced(self, src) ==
    LET x == XorOctets(src.buffer, src.count + 1, self.random_engine, <<>>)
    IN  Outcome(x.octets, x.engine, <<src>>, x.drawn)

\* The XOR loop over the sourced buffer, as an Outcome
Mixed(self, src) ==
    LET x == XorOctets(src.buffer, 1, self.random_engine, <<>>)
    IN  Outcome(x.octets, x.engine, <<src>>, x.drawn)

\* Faulty variant: the local octet does not start at 0.
GetRandomOctet_NotZeroed(self, table) ==
    {Mixed(self, src) : src \in SourceRandomOctets(self, <<255>>, table)}

\* RandomGenerator::GetRandomOctet()
GetRandomOctet(self, table) ==
    {Mixed(self, src) : src \in SourceRandomOctets(self, <<0>>, table)}

\* Faulty variant: no early return; the loop body runs once before its test.
GetRandomOctetsCount_NoEarlyReturn(self, count, table) ==
    IF count = 0
    THEN {Outcome(<<>>, EngineNext(self.random_engine),
                  <<Sourced(0, <<>>, <<>>)>>,
                  <<<<1, Distribution(EngineNext(self.random_engine))>>>>)}
    ELSE {Mixed(self, src) :
             src \in SourceRandomOctets(self, [k \in 1..count |-> 0], table)}

\* Faulty variant: the XOR loop runs from the last position to the first.
GetRandomOctetsCount_Reversed(self, count, table) ==
    IF count = 0 THEN {Outcome(<<>>, self.random_engine, <<>>, <<>>)}
    ELSE {LET m == Mixed(self, src) IN
          [m EXCEPT !.octets = [k \in 1..count |->
                                   XorOctet(src.buffer[k],
                                            m.drawn[count + 1 - k][2])]] :
             src \in SourceRandomOctets(self, [k \in 1..count |-> 0], table)}

\* RandomGenerator::GetRandomOctets(std::size_t count)
GetRandomOctetsCount(self, count, table) ==
    IF count = 0 THEN {Outcome(<<>>, self.random_engine, <<>>, <<>>)}
    ELSE {Mixed(self, src) :
             src \in SourceRandomOctets(self, [k \in 1..count |-> 0], table)}

\* RandomGenerator::GetRandomOctets(std::span<std::uint8_t> octets)
GetRandomOctetsSpan(self, octets, table) ==
    IF Len(octets) = 0 THEN {Outcome(octets, self.random_engine, <<>>, <<>>)}
    ELSE {Mixed(self, src) : src \in SourceRandomOctets(self, octets, table)}

(***************************************************************************)
(* State.                                                                  *)
(***************************************************************************)

VARIABLES
    status,         \* per generator: "none", "alive" or "destroyed"
    ctor_arg,       \* per generator: <<pseudo_random_only>> as passed to its
                    \* constructor, <<>> if it was not constructed from a bool
    obj,            \* per generator: its data members
    fd_table,       \* per descriptor number: "closed", "random", "urandom"
    opened,         \* per generator and slot: what open() returned to its
                    \* constructor (-1: failed or not attempted)
    open_attempts,  \* per generator: open() calls its constructor made
    fd_opener,      \* per descriptor number: <<generator, slot>> of the
                    \* constructor that last opened it, <<>> if none
    close_calls,    \* per <<generator, slot>>: close() calls issued on the
                    \* descriptor that constructor opened
    reads_issued,   \* per generator: has a read() been issued through it
    calls,          \* retrieval calls made so far
    last            \* the last operation: its inputs and what it did

vars == <<status, ctor_arg, obj, fd_table, opened, open_attempts, fd_opener,
          close_calls, reads_issued, calls, last>>

\* Buffers a caller passes: every length up to MaxLen.
Buffers ==
    {[k \in 1..n |-> c] : n \in 0..MaxLen, c \in CallerOctets}

NoObject == Object(FALSE, -1, -1, 0)

NoOutcome == Outcome(<<>>, 0, <<>>, <<>>)

Last(op, g, pre, input, out) ==
    [op |-> op, g |-> g, pre |-> pre, input |-> input, out |-> out]

Init ==
    /\ status = [g \in Generators |-> "none"]
    /\ ctor_arg = [g \in Generators |-> <<>>]
    /\ obj = [g \in Generators |-> NoObject]
    /\ fd_table = [fd \in FdNumbers |-> "closed"]
    /\ opened = [g \in Generators |-> [s \in Slots |-> -1]]
    /\ open_attempts = [g \in Generators |-> 0]
    /\ fd_opener = [fd \in FdNumbers |-> <<>>]
    /\ close_calls = [h \in Generators \X Slots |-> 0]
    /\ reads_issued = [g \in Generators |-> FALSE]
    /\ calls = 0
    /\ last = Last("none", Original, NoObject, <<>>, NoOutcome)

(***************************************************************************)
(* Operations.                                                             *)
(***************************************************************************)

\* RandomGenerator g(pseudo_random_only);
Construct(g, pseudo_random_only, in) ==
    /\ status[g] = "none"
    /\ NotAfter(in.clock1, in.clock2)
    /\ LET c == RandomGenerator(pseudo_random_only, fd_table, in)
           rfd == c.self.random_fd
           pfd == c.self.pseudo_random_fd
       IN  /\ status' = [status EXCEPT ![g] =
                            IF c.completed THEN "alive" ELSE "none"]
           /\ ctor_arg' = [ctor_arg EXCEPT ![g] = <<pseudo_random_only>>]
           /\ obj' = [obj EXCEPT ![g] = c.self]
           /\ fd_table' = c.table
           /\ opened' = [opened EXCEPT ![g] =
                            [s \in Slots |-> c.self[s]]]
           /\ open_attempts' = [open_attempts EXCEPT ![g] = Len(c.opens)]
           /\ fd_opener' = [fd \in FdNumbers |->
                               IF fd = rfd THEN <<g, "random_fd">>
                               ELSE IF fd = pfd THEN <<g, "pseudo_random_fd">>
                               ELSE fd_opener[fd]]
           /\ last' = Last("Construct", g, NoObject, <<pseudo_random_only, in>>,
                           [c EXCEPT !.table = <<>>])
    /\ UNCHANGED <<close_calls, reads_issued, calls>>

\* RandomGenerator g(other);
Copy(g, other) ==
    /\ status[g] = "none"
    /\ status[other] = "alive"
    /\ status' = [status EXCEPT ![g] = "alive"]
    /\ obj' = [obj EXCEPT ![g] = CopyConstruct(obj[other])]
    /\ last' = Last("Copy", g, obj[other], <<>>, NoOutcome)
    /\ UNCHANGED <<ctor_arg, fd_table, opened, open_attempts, fd_opener,
                   close_calls, reads_issued, calls>>

\* close_calls after the close() calls of fds, in order
RECURSIVE CountCloses(_, _)
CountCloses(counts, fds) ==
    IF fds = <<>> THEN counts
    ELSE LET h == fd_opener[Head(fds)] IN
         CountCloses(IF h = <<>> THEN counts
                     ELSE [counts EXCEPT ![h] = @ + 1],
                     Tail(fds))

RECURSIVE CloseAll(_, _)
CloseAll(table, fds) ==
    IF fds = <<>> THEN table
    ELSE CloseAll(close(table, Head(fds)), Tail(fds))

\* g goes out of scope
Destroy(g) ==
    /\ status[g] = "alive"
    /\ LET fds == Destructor(obj[g]) IN
       /\ fd_table' = CloseAll(fd_table, fds)
       /\ close_calls' = CountCloses(close_calls, fds)
       /\ last' = Last("Destroy", g, obj[g], fds, NoOutcome)
    /\ status' = [status EXCEPT ![g] = "destroyed"]
    /\ UNCHANGED <<ctor_arg, obj, opened, open_attempts, fd_opener,
                   reads_issued, calls>>

\* read() calls made by the SourceRandomOctets calls of an outcome
ReadsOf(out) ==
    IF out.source = <<>> THEN 0 ELSE Len(out.source[1].reads)

\* The state after a retrieval call on g.
Retrieved(op, g, input, out) ==
    /\ obj' = [obj EXCEPT ![g].random_engine = out.engine]
    /\ reads_issued' = [reads_issued EXCEPT ![g] = @ \/ ReadsOf(out) > 0]
    /\ calls' = calls + 1
    /\ last' = Last(op, g, obj[g], input, out)
    /\ UNCHANGED <<status, ctor_arg, fd_table, opened, open_attempts,
                   fd_opener, close_calls>>

\* g.GetRandomOctet()
CallGetRandomOctet(g) ==
    /\ status[g] = "alive"
    /\ calls < MaxCalls
    /\ \E out \in GetRandomOctet(obj[g], fd_table) :
          Retrieved("GetRandomOctet", g, <<>>, out)

\* g.GetRandomOctets(count)
CallGetRandomOctetsCount(g, count) ==
    /\ status[g] = "alive"
    /\ calls < MaxCalls
    /\ \E out \in GetRandomOctetsCount(obj[g], count, fd_table) :
          Retrieved("GetRandomOctetsCount", g, [k \in 1..count |-> 0], out)

\* g.GetRandomOctets(octets)
CallGetRandomOctetsSpan(g, octets) ==
    /\ status[g] = "alive"
    /\ calls < MaxCalls
    /\ \E out \in GetRandomOctetsSpan(obj[g], octets, fd_table) :
          Retrieved("GetRandomOctetsSpan", g, octets, out)

\* g.SourceRandomOctets(buffer), as a derived class exposes it
CallSourceRandomOctets(g, buffer) ==
    /\ status[g] = "alive"
    /\ calls < MaxCalls
    /\ \E src \in SourceRandomOctets(obj[g], buffer, fd_table) :
          Retrieved("SourceRandomOctets", g, buffer,
                    Outcome(src.buffer, obj[g].random_engine, <<src>>, <<>>))

Next ==
    \/ \E m \in BOOLEAN, in \in CtorInputs : Construct(Original, m, in)
    \/ Copy(Duplicate, Original)
    \/ \E g \in Generators : Destroy(g)
    \/ \E g \in Generators : CallGetRandomOctet(g)
    \/ \E g \in Generators, n \in 0..MaxLen : CallGetRandomOctetsCount(g, n)
    \/ \E g \in Generators, b \in Buffers : CallGetRandomOctetsSpan(g, b)
    \/ \E g \in Generators, b \in Buffers : CallSourceRandomOctets(g, b)

Spec == Init /\ [][Next]_vars

(***************************************************************************)
(* Properties.  Each is stated on `last`, the record of the operation that *)
(* led to the state, and on the state it left.                             *)
(***************************************************************************)

Retrievals ==
    {"GetRandomOctet", "GetRandomOctetsCount", "GetRandomOctetsSpan",
     "SourceRandomOctets"}

Bulk == {"GetRandomOctetsCount", "GetRandomOctetsSpan"}

\* The buffer the last operation handed to SourceRandomOctets.
SourceInput == IF last.op = "GetRandomOctet" THEN <<0>> ELSE last.input

\* The engine after k steps, and the k-th octet drawn from it.
RECURSIVE EngineAfter(_, _)
EngineAfter(engine, k) ==
    IF k = 0 THEN engine ELSE EngineNext(EngineAfter(engine, k - 1))

NthOctet(engine, k) == Distribution(EngineAfter(engine, k))

DeviceOctets == {DeviceOctet("random"), DeviceOctet("urandom")}

\* octets_sourced after the read of the random device logged in reads
AfterRandom(reads) ==
    IF reads # <<>> /\ reads[1].slot = "random_fd" /\ reads[1].result > 0
    THEN reads[1].result ELSE 0

\* C1: a non-empty bulk request of N octets (either overload, either mode,
\* any read outcome) invokes SourceRandomOctets exactly once, for the whole
\* length N; then exactly N PRNG octets are drawn, the k-th XORed onto
\* position k in increasing order whether or not the OS filled it; the
\* result has exactly N octets.
C1_BulkMixesEveryPosition ==
    (last.op \in Bulk /\ Len(last.input) > 0) =>
        LET n == Len(last.input)
            out == last.out
        IN  /\ Len(out.source) = 1
            /\ Len(out.source[1].buffer) = n
            /\ Len(out.drawn) = n
            /\ Len(out.octets) = n
            /\ \A k \in 1..n :
                  /\ out.drawn[k] =
                        <<k, NthOctet(last.pre.random_engine, k)>>
                  /\ out.octets[k] =
                        XorOctet(out.source[1].buffer[k], out.drawn[k][2])
            /\ obj[last.g].random_engine =
                  EngineAfter(last.pre.random_engine, n)

\* C1 witness: a bulk request of two octets of which the OS filled one.
C1_Witness ==
    /\ last.op \in Bulk
    /\ Len(last.input) = 2
    /\ last.out.source[1].count = 1

\* C2: a generator constructed with pseudo_random_only = true holds no OS
\* handle in any state (both descriptors -1, no open attempted), no read()
\* is ever issued through it, and every SourceRandomOctets call on it
\* returns 0.
C2_PseudoRandomOnlyTouchesNoDevice ==
    \A g \in Generators :
        ctor_arg[g] = <<TRUE>> =>
            /\ obj[g].pseudo_random_only
            /\ obj[g].random_fd = -1
            /\ obj[g].pseudo_random_fd = -1
            /\ open_attempts[g] = 0
            /\ ~reads_issued[g]
            /\ (last.op \in Retrievals /\ last.g = g) =>
                  \A i \in 1..Len(last.out.source) :
                      /\ last.out.source[i].count = 0
                      /\ last.out.source[i].reads = <<>>

\* C2 witness: SourceRandomOctets was called with a two-octet buffer on a
\* generator constructed with pseudo_random_only = true.
C2_Witness ==
    /\ ctor_arg[Original] = <<TRUE>>
    /\ last.op = "SourceRandomOctets"
    /\ last.g = Original
    /\ Len(last.input) = 2

\* The SourceRandomOctets calls of two outcomes saw the same read results.
SameReads(o1, o2) ==
    /\ Len(o1.source) = Len(o2.source)
    /\ \A i \in 1..Len(o1.source) : o1.source[i].reads = o2.source[i].reads

\* C3: from the same generator state and the same read outcomes, the
\* in-place overload leaves in the caller's buffer of length N exactly the
\* octets GetRandomOctets(N) returns, whatever the buffer held before.
C3_InPlaceEqualsAllocating ==
    last.op = "GetRandomOctetsSpan" =>
        \A o \in GetRandomOctetsCount(last.pre, Len(last.input), fd_table) :
            SameReads(o, last.out) => o.octets = last.out.octets

\* C4: a handle opened at construction stays open and unchanged while the
\* generator lives and is closed exactly once, at destruction; a handle
\* that failed to open is never closed.
C4_HandleClosedExactlyOnce ==
    \A g \in Generators, s \in Slots :
        LET fd == opened[g][s] IN
        /\ fd < 0 => close_calls[<<g, s>>] = 0
        /\ (fd >= 0 /\ status[g] = "alive") =>
              /\ obj[g][s] = fd
              /\ fd_table[fd] # "closed"
              /\ close_calls[<<g, s>>] = 0
        /\ (fd >= 0 /\ status[g] = "destroyed") => close_calls[<<g, s>>] = 1

\* C5: construction always completes with a seeded engine, for every
\* combination of open results and seed outcome: seeded from
\* std::random_device, or from the clock when that throws; a failed open
\* leaves only that handle absent.
C5_ConstructionAlwaysSucceeds ==
    last.op = "Construct" =>
        LET mode == last.input[1]
            in == last.input[2]
            self == obj[last.g]
        IN  /\ status[last.g] = "alive"
            /\ self.pseudo_random_only = mode
            /\ self.random_engine =
                  IF in.rd.throws THEN EngineSeed(SeedCast(in.clock2))
                  ELSE EngineSeed(in.rd.value)
            /\ ~mode =>
                  /\ IF in.open_random
                     THEN /\ self.random_fd \in FdNumbers
                          /\ fd_table[self.random_fd] = "random"
                     ELSE self.random_fd = -1
                  /\ IF in.open_urandom
                     THEN /\ self.pseudo_random_fd \in FdNumbers
                          /\ fd_table[self.pseudo_random_fd] = "urandom"
                     ELSE self.pseudo_random_fd = -1

\* C5 witness: a mixed-mode construction in which std::random_device threw,
\* /dev/random failed to open and /dev/urandom opened.
C5_Witness ==
    /\ last.op = "Construct"
    /\ ~last.input[1]
    /\ last.input[2].rd.throws
    /\ ~last.input[2].open_random
    /\ last.input[2].open_urandom
    /\ status[last.g] = "alive"

\* C6: a zero-length bulk request, in either mode, returns an empty
\* sequence (or returns), issues no read, draws no PRNG octet and leaves the
\* engine, the mode and the handles as they were.
C6_ZeroLengthHasNoEffect ==
    (last.op \in Bulk /\ Len(last.input) = 0) =>
        /\ last.out.octets = <<>>
        /\ last.out.drawn = <<>>
        /\ \A i \in 1..Len(last.out.source) : last.out.source[i].reads = <<>>
        /\ last.out.engine = last.pre.random_engine
        /\ obj[last.g] = last.pre

\* C6 witness: a zero-length request on a mixed-mode generator with both
\* devices open.
C6_Witness ==
    /\ last.op \in Bulk
    /\ Len(last.input) = 0
    /\ ~last.pre.pseudo_random_only
    /\ last.pre.random_fd \in FdNumbers
    /\ last.pre.pseudo_random_fd \in FdNumbers
    /\ fd_table[last.pre.random_fd] = "random"
    /\ fd_table[last.pre.pseudo_random_fd] = "urandom"

\* Indices of the reads of a slot in a log of read() calls.
ReadsOn(reads, slot) == {i \in 1..Len(reads) : reads[i].slot = slot}

\* C7: one SourceRandomOctets call on a non-empty buffer in mixed mode reads
\* in a fixed order with no retry: at most one read of the random device,
\* issued exactly when its descriptor is held, for the full length; then at
\* most one read of the pseudo-random device, issued exactly when the first
\* obtained fewer octets than requested and its descriptor is held, for
\* exactly the remaining suffix; no read follows it.
C7_ReadOrderNoRetry ==
    (last.op \in Retrievals /\ ~last.pre.pseudo_random_only) =>
        \A i \in 1..Len(last.out.source) :
            LET reads == last.out.source[i].reads
                size == Len(last.out.source[i].buffer)
                first == ReadsOn(reads, "random_fd")
                second == ReadsOn(reads, "pseudo_random_fd")
            IN  size > 0 =>
                /\ first = IF last.pre.random_fd >= 0 THEN {1} ELSE {}
                /\ \A j \in first :
                      /\ reads[j].fd = last.pre.random_fd
                      /\ reads[j].offset = 0
                      /\ reads[j].count = size
                /\ second =
                      IF /\ AfterRandom(reads) < size
                         /\ last.pre.pseudo_random_fd >= 0
                      THEN {Cardinality(first) + 1} ELSE {}
                /\ \A j \in second :
                      /\ reads[j].fd = last.pre.pseudo_random_fd
                      /\ reads[j].offset = AfterRandom(reads)
                      /\ reads[j].count = size - AfterRandom(reads)
                /\ Len(reads) = Cardinality(first) + Cardinality(second)

\* C7 witness: the random device gave one of two octets and the
\* pseudo-random device was then read for the other.
C7_Witness ==
    /\ last.op = "SourceRandomOctets"
    /\ Len(last.input) = 2
    /\ Len(last.out.source[1].reads) = 2
    /\ last.out.source[1].reads[1].result = 1
    /\ last.out.source[1].reads[2].count = 1

\* Sum of the positive results of the reads logged from index i on.
RECURSIVE Obtained(_, _)
Obtained(reads, i) ==
    IF i > Len(reads) THEN 0
    ELSE (IF reads[i].result > 0 THEN reads[i].result ELSE 0)
         + Obtained(reads, i + 1)

\* C8: for every buffer length L and every outcome of each read, the count
\* c returned by SourceRandomOctets satisfies 0 <= c <= L, a failed read
\* adds nothing to it, the positions the OS wrote are exactly the first c,
\* and the others are as the caller left them.
C8_SourcedCountBounded ==
    last.op \in Retrievals =>
        \A i \in 1..Len(last.out.source) :
            LET src == last.out.source[i]
                size == Len(SourceInput)
            IN  /\ Len(src.buffer) = size
                /\ 0 <= src.count
                /\ src.count <= size
                /\ src.count = Obtained(src.reads, 1)
                /\ \A k \in 1..size :
                      IF k <= src.count THEN src.buffer[k] \in DeviceOctets
                      ELSE src.buffer[k] = SourceInput[k]

\* C8 witness: on a two-octet buffer of the caller one read failed,
\* the other gave one octet, one position is left untouched.
C8_Witness ==
    /\ last.op = "SourceRandomOctets"
    /\ last.input = <<165, 165>>
    /\ last.out.source[1].count = 1
    /\ \E j \in 1..Len(last.out.source[1].reads) :
          last.out.source[1].reads[j].result <= 0

\* C9: in mixed mode, on a buffer of length L > 0, when the pseudo-random
\* device is open and satisfies in full the read made of it,
\* SourceRandomOctets returns L, whatever the random device did.
C9_FullWhenSecondaryDelivers ==
    (last.op \in Retrievals /\ ~last.pre.pseudo_random_only) =>
        \A i \in 1..Len(last.out.source) :
            LET src == last.out.source[i]
                pfd == last.pre.pseudo_random_fd
            IN  ( /\ Len(src.buffer) > 0
                  /\ pfd \in FdNumbers
                  /\ fd_table[pfd] = "urandom"
                  /\ \A j \in ReadsOn(src.reads, "pseudo_random_fd") :
                        src.reads[j].result = src.reads[j].count )
                => src.count = Len(src.buffer)

\* C9 witness: the random device gave a short read of one octet and the
\* pseudo-random device filled the rest of a two-octet buffer.
C9_Witness ==
    /\ last.op = "SourceRandomOctets"
    /\ Len(last.input) = 2
    /\ Len(last.out.source[1].reads) = 2
    /\ last.out.source[1].reads[1].result = 1
    /\ last.out.source[1].reads[2].result = 1
    /\ last.out.source[1].count = 2

\* C10: GetRandomOctet calls SourceRandomOctets once, for one octet, draws
\* exactly one PRNG octet and returns the OS octet (0 when none was
\* obtained) XOR that octet: with no OS contribution, the PRNG octet itself.
C10_SingleOctet ==
    last.op = "GetRandomOctet" =>
        LET out == last.out
            prng == NthOctet(last.pre.random_engine, 1)
        IN  /\ Len(out.source) = 1
            /\ Len(out.source[1].buffer) = 1
            /\ Len(out.octets) = 1
            /\ Len(out.drawn) = 1
            /\ out.drawn[1][2] = prng
            /\ obj[last.g].random_engine = EngineNext(last.pre.random_engine)
            /\ IF out.source[1].count = 0
               THEN out.octets[1] = prng
               ELSE /\ out.source[1].buffer[1] \in DeviceOctets
                    /\ out.octets[1] = XorOctet(out.source[1].buffer[1], prng)

\* C10 witness: GetRandomOctet with one octet obtained from the OS.
C10_Witness ==
    /\ last.op = "GetRandomOctet"
    /\ last.out.source[1].count = 1

\* Octets a retrieval call recorded as l asks the PRNG for: one for
\* GetRandomOctet, the length of the request for a bulk call, none for
\* SourceRandomOctets.
Draws(l) ==
    IF l.op = "GetRandomOctet" THEN 1
    ELSE IF l.op \in Bulk THEN Len(l.input)
    ELSE 0

\* C11: after construction the mode and the PRNG seed never change.  In
\* every step of a generator's life the mode stays the value given to its
\* constructor and its descriptors stay as they are; the engine is never
\* reset or re-seeded: a GetRandomOctet / GetRandomOctets call on the
\* generator advances it by exactly one step per octet drawn, every other
\* step leaves it alone, and SourceRandomOctets changes no data member of
\* any generator.
C11_ModeAndSeedFixed ==
    [][\A g \in Generators :
          /\ (ctor_arg'[g] # <<>> /\ status'[g] # "none") =>
                 obj'[g].pseudo_random_only = ctor_arg'[g][1]
          /\ status[g] = "alive" =>
                 LET called == calls' = calls + 1 /\ last'.g = g
                     k == IF called THEN Draws(last') ELSE 0
                 IN  /\ obj'[g].pseudo_random_only = obj[g].pseudo_random_only
                     /\ obj'[g].random_fd = obj[g].random_fd
                     /\ obj'[g].pseudo_random_fd = obj[g].pseudo_random_fd
                     /\ obj'[g].random_engine =
                            EngineAfter(obj[g].random_engine, k)
                     /\ (called /\ last'.op = "SourceRandomOctets") =>
                            obj' = obj]_vars

\* C11 witness: a two-octet bulk call on a generator built in mixed mode has
\* read from the OS and moved the engine two steps on from its seed.
C11_Witness ==
    /\ last.op = "GetRandomOctetsCount"
    /\ Len(last.input) = 2
    /\ ctor_arg[last.g] = <<FALSE>>
    /\ ~obj[last.g].pseudo_random_only
    /\ Len(last.out.source[1].reads) > 0
    /\ obj[last.g].random_engine # last.pre.random_engine
    /\ obj[last.g].random_engine = EngineAfter(last.pre.random_engine, 2)

\* What a caller sees of retrievals made one after another: the octets
\* returned, concatenated, and the engine left behind.
Seen(octets, engine) == [octets |-> octets, engine |-> engine]

\* self with its engine moved on to engine
Advanced(self, engine) == [self EXCEPT !.random_engine = engine]

\* n successive GetRandomOctet calls on self: every outcome.
RECURSIVE Scalars(_, _, _)
Scalars(self, n, table) ==
    IF n = 0 THEN {Seen(<<>>, self.random_engine)}
    ELSE UNION {{Seen(p.octets \o o.octets, o.engine) :
                    o \in GetRandomOctet(Advanced(self, p.engine), table)} :
                   p \in Scalars(self, n - 1, table)}

\* GetRandomOctets(a) followed by GetRandomOctets(b) on self: every outcome.
Chained(self, a, b, table) ==
    UNION {{Seen(x.octets \o y.octets, y.engine) :
               y \in GetRandomOctetsCount(Advanced(self, x.engine), b, table)} :
              x \in GetRandomOctetsCount(self, a, table)}

\* C12: in pseudo-random-only mode GetRandomOctets(N) depends only on the
\* engine: it returns exactly the octets N successive GetRandomOctet calls
\* return from the same engine state and leaves the engine where they leave
\* it, and for every split N = A + B, GetRandomOctets(A) followed by
\* GetRandomOctets(B) returns the same octets, concatenated, and the same
\* engine.
C12_BulkEqualsScalars ==
    (last.op = "GetRandomOctetsCount" /\ last.pre.pseudo_random_only) =>
        LET n == Len(last.input)
            bulk == Seen(last.out.octets, obj[last.g].random_engine)
        IN  /\ GetRandomOctetsCount(last.pre, n, fd_table) = {last.out}
            /\ Scalars(last.pre, n, fd_table) = {bulk}
            /\ \A a \in 0..n :
                  Chained(last.pre, a, n - a, fd_table) = {bulk}

\* C12 witness: a two-octet bulk call in pseudo-random-only mode whose two
\* octets differ.
C12_Witness ==
    /\ last.op = "GetRandomOctetsCount"
    /\ last.pre.pseudo_random_only
    /\ Len(last.input) = 2
    /\ last.out.octets[1] # last.out.octets[2]

====
